---- MODULE Spec2Model ----
(***************************************************************************)
(* financial_dashboard.py as a state machine.                              *)
(*                                                                         *)
(* Three parts of the script are modelled, each with its own               *)
(* specification:                                                          *)
(*   SpecParse       the allocation parsing loop (lines 30-37)             *)
(*   SpecIndicators  fetch_data (lines 40-65): 50_SMA, 200_SMA and RSI     *)
(*   SpecPortfolio   portfolio_performance (lines 89-104)                  *)
(*                                                                         *)
(* Floating-point numbers are modelled as exact rationals extended with    *)
(* the IEEE values NaN, +Inf and -Inf; rounding is not modelled.  Bar and  *)
(* row positions are 0-based in the source and 1-based in the sequences    *)
(* here: bar i of the source is element i + 1.                             *)
(***************************************************************************)
EXTENDS Integers, Sequences, FiniteSets

VARIABLES
    portfolio_allocations, \* the text of the allocation text area (line 20)
    item_idx,              \* how many items of the split the loop has consumed
    alloc_dict,            \* the weight map, in insertion order (line 31)
    surfaced,              \* the entries reported to the caller as rejected
    history,               \* the Close series yf.download returns to fetch_data
    df,                    \* the table fetch_data returned (line 112)
    analysed,              \* whether fetch_data has run
    supplier,              \* ticker -> the close series yf.download returns
    port_pc,               \* "call" before portfolio_performance, then "returned"
    prices,                \* the aligned, forward-filled price table (line 93)
    portfolio_return,      \* the weighted return per retained row (line 96)
    cumulative,            \* the cumulative growth series (line 97)
    metrics                \* the metrics record (lines 99-103)

vars == <<portfolio_allocations, item_idx, alloc_dict, surfaced, history, df,
          analysed, supplier, port_pc, prices, portfolio_return, cumulative, metrics>>

parse_vars == <<portfolio_allocations, item_idx, alloc_dict, surfaced>>
ind_vars == <<history, df, analysed>>
port_vars == <<supplier, port_pc, prices, portfolio_return, cumulative, metrics>>

----------------------------------------------------------------------------
(* Floating-point values: a rational n/d in lowest terms with d > 0, or    *)
(* one of NaN, +Inf, -Inf.                                                 *)

Abs(x) == IF x < 0 THEN -x ELSE x

RECURSIVE Gcd(_, _)
Gcd(a, b) == IF b = 0 THEN a ELSE Gcd(b, a % b)

NaN == [k |-> "nan", n |-> 0, d |-> 1]
PosInf == [k |-> "inf", n |-> 1, d |-> 1]
NegInf == [k |-> "inf", n |-> -1, d |-> 1]

Rat(a, b) ==
    LET g == Gcd(Abs(a), Abs(b))
        s == IF b < 0 THEN -1 ELSE 1
    IN  [k |-> "num", n |-> (s * a) \div g, d |-> (s * b) \div g]

Num(a) == [k |-> "num", n |-> a, d |-> 1]

IsNum(x) == x.k = "num"
IsNaN(x) == x.k = "nan"
IsInf(x) == x.k = "inf"
Sign(x) == IF x.n > 0 THEN 1 ELSE IF x.n < 0 THEN -1 ELSE 0

Neg(x) == IF IsNaN(x) THEN NaN ELSE [x EXCEPT !.n = -x.n]

Add(x, y) ==
    IF IsNaN(x) \/ IsNaN(y) THEN NaN
    ELSE IF IsInf(x) /\ IsInf(y) THEN (IF x.n = y.n THEN x ELSE NaN)
    ELSE IF IsInf(x) THEN x
    ELSE IF IsInf(y) THEN y
    ELSE Rat(x.n * y.d + y.n * x.d, x.d * y.d)

Sub(x, y) == Add(x, Neg(y))

Mul(x, y) ==
    IF IsNaN(x) \/ IsNaN(y) THEN NaN
    ELSE IF IsInf(x) \/ IsInf(y)
         THEN (IF Sign(x) * Sign(y) = 0 THEN NaN
               ELSE IF Sign(x) * Sign(y) > 0 THEN PosInf ELSE NegInf)
    ELSE Rat(x.n * y.n, x.d * y.d)

\* IEEE division as numpy performs it on float64 columns: x/0 is +-Inf for
\* x # 0 and NaN for x = 0; nothing raises.
Div(x, y) ==
    IF IsNaN(x) \/ IsNaN(y) THEN NaN
    ELSE IF IsInf(x) /\ IsInf(y) THEN NaN
    ELSE IF IsInf(x) THEN (IF Sign(x) * (IF Sign(y) < 0 THEN -1 ELSE 1) > 0
                           THEN PosInf ELSE NegInf)
    ELSE IF IsInf(y) THEN Num(0)
    ELSE IF y.n = 0 THEN (IF x.n = 0 THEN NaN
                          ELSE IF x.n > 0 THEN PosInf ELSE NegInf)
    ELSE Rat(x.n * y.d, x.d * y.n)

\* x > 0 and x < 0 as numpy compares: every comparison with NaN is False.
Gt0(x) == ~IsNaN(x) /\ x.n > 0
Lt0(x) == ~IsNaN(x) /\ x.n < 0

----------------------------------------------------------------------------
(* Strings are sequences of one-character strings.                         *)

RECURSIVE FirstIndex(_, _, _)
FirstIndex(s, c, from) ==
    IF from > Len(s) THEN 0
    ELSE IF s[from] = c THEN from
    ELSE FirstIndex(s, c, from + 1)

\* str.split(sep): the pieces between the separators; "" splits to [""].
RECURSIVE Split(_, _)
Split(s, sep) ==
    LET k == FirstIndex(s, sep, 1)
    IN  IF k = 0 THEN <<s>>
        ELSE <<SubSeq(s, 1, k - 1)>> \o Split(SubSeq(s, k + 1, Len(s)), sep)

\* str.strip(): leading and trailing blanks removed.
RECURSIVE Strip(_)
Strip(s) ==
    IF s = <<>> THEN s
    ELSE IF Head(s) = " " THEN Strip(Tail(s))
    ELSE IF s[Len(s)] = " " THEN Strip(SubSeq(s, 1, Len(s) - 1))
    ELSE s

\* str.upper()
UpperChar(c) == IF c = "a" THEN "A" ELSE IF c = "b" THEN "B" ELSE c
Upper(s) == [i \in 1..Len(s) |-> UpperChar(s[i])]

DigitChars == <<"0", "1", "2", "3", "4", "5", "6", "7", "8", "9">>
Digits == {DigitChars[i] : i \in 1..Len(DigitChars)}
DigitValue(c) == (CHOOSE i \in 1..Len(DigitChars) : DigitChars[i] = c) - 1

RECURSIVE DigitsValue(_)
DigitsValue(s) ==
    IF s = <<>> THEN 0
    ELSE 10 * DigitsValue(SubSeq(s, 1, Len(s) - 1)) + DigitValue(s[Len(s)])

AllDigits(s) == s # <<>> /\ \A i \in 1..Len(s) : s[i] \in Digits

\* float(s) does not raise: over the modelled alphabet, an optional minus
\* sign followed by at least one digit.
IsFloat(s) ==
    IF s # <<>> /\ Head(s) = "-" THEN AllDigits(Tail(s)) ELSE AllDigits(s)

\* float(s)
Float(s) ==
    IF Head(s) = "-" THEN Num(-DigitsValue(Tail(s))) ELSE Num(DigitsValue(s))

----------------------------------------------------------------------------
(* The allocation parsing loop, lines 30-37.                               *)

\* portfolio_allocations.split(",")
Items == Split(portfolio_allocations, ",")

\* The try body (lines 34-35) runs to its end: the item unpacks into exactly
\* two pieces and the second is a float.
TrySucceeds(item) ==
    LET parts == Split(item, ":")
    IN  Len(parts) = 2 /\ IsFloat(Strip(parts[2]))

\* t.strip().upper()
ItemKey(item) == Upper(Strip(Split(item, ":")[1]))

\* float(p.strip()) / 100
ItemWeight(item) == Div(Float(Strip(Split(item, ":")[2])), Num(100))

\* dict[key] = value: an existing key keeps its place, a new one is appended.
DictSet(dict, key, val) ==
    IF \E i \in 1..Len(dict) : dict[i].key = key
    THEN [i \in 1..Len(dict) |->
            IF dict[i].key = key THEN [key |-> key, val |-> val] ELSE dict[i]]
    ELSE Append(dict, [key |-> key, val |-> val])

\* One iteration whose try body succeeds (lines 34-35).
ParseItem ==
    /\ item_idx < Len(Items)
    /\ TrySucceeds(Items[item_idx + 1])
    /\ alloc_dict' = DictSet(alloc_dict, ItemKey(Items[item_idx + 1]),
                             ItemWeight(Items[item_idx + 1]))
    /\ item_idx' = item_idx + 1
    /\ UNCHANGED <<portfolio_allocations, surfaced>>
    /\ UNCHANGED ind_vars
    /\ UNCHANGED port_vars

\* One iteration whose try body raises: `except: pass` (lines 36-37) records
\* nothing and the loop goes on.
ParseItemExcept ==
    /\ item_idx < Len(Items)
    /\ ~TrySucceeds(Items[item_idx + 1])
    /\ item_idx' = item_idx + 1
    /\ UNCHANGED <<portfolio_allocations, alloc_dict, surfaced>>
    /\ UNCHANGED ind_vars
    /\ UNCHANGED port_vars

ParseDone == item_idx = Len(Items)

\* The map the whole loop leaves for a list of items.
RECURSIVE ParseFrom(_, _)
ParseFrom(items, dict) ==
    IF items = <<>> THEN dict
    ELSE ParseFrom(Tail(items),
                   IF TrySucceeds(Head(items))
                   THEN DictSet(dict, ItemKey(Head(items)), ItemWeight(Head(items)))
                   ELSE dict)

ParseAll(text) == ParseFrom(Split(text, ","), <<>>)

----------------------------------------------------------------------------
(* fetch_data, lines 40-65.  The columns no property reads (20_EMA,        *)
(* Upper_BB, Lower_BB) are left out of the table.                          *)

SMA50Window == 50
SMA200Window == 200
RSIWindow == 14

\* Series.rolling(w).mean() as pandas computes it: a sliding sum and a count
\* of the non-NaN observations in the window; each bar adds its own value and
\* removes the one leaving the window.  RollStep is the change bar i makes to
\* the sum and the count, RollState the sum and the count after bars lo..hi
\* (halved so that the evaluation stays shallow on long series).
RollStep(col, w, i) ==
    LET added == IF IsNaN(col[i]) THEN [s |-> Num(0), c |-> 0]
                 ELSE [s |-> col[i], c |-> 1]
        old == IF i > w THEN col[i - w] ELSE NaN
    IN  IF IsNaN(old) THEN added
        ELSE [s |-> Sub(added.s, old), c |-> added.c - 1]

RECURSIVE RollState(_, _, _, _)
RollState(col, w, lo, hi) ==
    IF lo > hi THEN [s |-> Num(0), c |-> 0]
    ELSE IF lo = hi THEN RollStep(col, w, lo)
    ELSE LET mid == (lo + hi) \div 2
             l == RollState(col, w, lo, mid)
             r == RollState(col, w, mid + 1, hi)
         IN  [s |-> Add(l.s, r.s), c |-> l.c + r.c]

\* The mean is NaN until the count reaches min_periods = w.
Roll(col, w) ==
    [i \in 1..Len(col) |->
        LET st == RollState(col, w, 1, i)
        IN  IF st.c >= w THEN Div(st.s, Num(st.c)) ELSE NaN]

\* A window one bar too long.
RollingMeanOffByOne(col, w) == Roll(col, w + 1)

RollingMean(col, w) == Roll(col, w)

\* Series.diff(): NaN at the first bar.
Diff(col) ==
    [i \in 1..Len(col) |-> IF i = 1 THEN NaN ELSE Sub(col[i], col[i - 1])]

\* A mask that lets the NaN of the first bar through.
WherePositiveKeepNaN(col) ==
    [i \in 1..Len(col) |->
        IF IsNaN(col[i]) \/ Gt0(col[i]) THEN col[i] ELSE Num(0)]

\* delta.where(delta > 0, 0): the value where the condition is True, else 0.
\* NaN > 0 is False, so the NaN of the first bar becomes 0.
WherePositive(col) ==
    [i \in 1..Len(col) |-> IF Gt0(col[i]) THEN col[i] ELSE Num(0)]

\* delta.where(delta < 0, 0)
WhereNegative(col) ==
    [i \in 1..Len(col) |-> IF Lt0(col[i]) THEN col[i] ELSE Num(0)]

NegCol(col) == [i \in 1..Len(col) |-> Neg(col[i])]

\* lines 59-61
Delta(close) == Diff(close)
Gain(close) == RollingMean(WherePositive(Delta(close)), RSIWindow)
Loss(close) == RollingMean(NegCol(WhereNegative(Delta(close))), RSIWindow)

\* A guarded ratio: undefined whenever the loss is 0.
RSOfGuarded(gain, loss) ==
    IF IsNum(loss) /\ loss.n = 0 THEN NaN ELSE Div(gain, loss)

\* RS = gain / loss (line 62)
RSOf(gain, loss) == Div(gain, loss)

\* 100 - (100 / (1 + RS)) (line 63)
RSIOf(rs) == Sub(Num(100), Div(Num(100), Add(Num(1), rs)))

RSICol(close) ==
    LET gain == Gain(close)
        loss == Loss(close)
    IN  [i \in 1..Len(close) |-> RSIOf(RSOf(gain[i], loss[i]))]

\* The table fetch_data returns for a Close series.
Indicators(close) ==
    [Close |-> close,
     SMA50 |-> RollingMean(close, SMA50Window),
     SMA200 |-> RollingMean(close, SMA200Window),
     RSI |-> RSICol(close)]

fetch_data ==
    /\ ~analysed
    /\ df' = Indicators(history)
    /\ analysed' = TRUE
    /\ UNCHANGED history
    /\ UNCHANGED parse_vars
    /\ UNCHANGED port_vars

----------------------------------------------------------------------------
(* portfolio_performance, lines 89-104.                                    *)
(*                                                                         *)
(* A close series is a function from the dates the supplier has bars for   *)
(* to the close; the empty function is what yf.download returns for a      *)
(* ticker it has no bars for (an empty frame that still has its Close      *)
(* column).  The price table is its row index (dates, ascending) and one   *)
(* column per key of alloc_dict, in key order.                             *)

RECURSIVE SortedSeq(_)
SortedSeq(S) ==
    IF S = {} THEN <<>>
    ELSE LET m == CHOOSE x \in S : \A y \in S : x <= y
         IN  <<m>> \o SortedSeq(S \ {m})

Keys(dict) == [i \in 1..Len(dict) |-> dict[i].key]

\* The column a series becomes when assigned into a frame with this index:
\* its value on the dates of the index it has, NaN on the others; its bars
\* on dates outside the index are not kept.
Reindex(series, index) ==
    [r \in 1..Len(index) |->
        IF index[r] \in DOMAIN series THEN Num(series[index[r]]) ELSE NaN]

\* prices[t] = series (line 92).  A frame whose index is still empty takes
\* the index of the first non-empty series assigned to it, its earlier
\* (empty) columns becoming all-NaN; afterwards every series is reindexed
\* to the index the frame already has.
SetColumn(frame, series) ==
    LET index == IF Len(frame.index) = 0 THEN SortedSeq(DOMAIN series)
                 ELSE frame.index
    IN  [index |-> index,
         cols |-> Append([c \in 1..Len(frame.cols) |->
                            [r \in 1..Len(index) |->
                                IF Len(frame.index) = 0 THEN NaN
                                ELSE frame.cols[c][r]]],
                         Reindex(series, index))]

\* lines 90-92: the loop over alloc_dict.keys()
RECURSIVE BuildPrices(_, _, _)
BuildPrices(keys, sup, frame) ==
    IF keys = <<>> THEN frame
    ELSE BuildPrices(Tail(keys), sup, SetColumn(frame, sup[Head(keys)]))

\* fillna(method='ffill') on one column: a NaN takes the last value before
\* it; a leading NaN stays.
RECURSIVE FFillCol(_, _, _, _)
FFillCol(col, r, last, out) ==
    IF r > Len(col) THEN out
    ELSE LET v == IF IsNaN(col[r]) THEN last ELSE col[r]
         IN  FFillCol(col, r + 1, v, Append(out, v))

FFill(frame) ==
    [frame EXCEPT !.cols =
        [c \in 1..Len(frame.cols) |-> FFillCol(frame.cols[c], 1, NaN, <<>>)]]

\* pct_change() on one column: NaN on the first row, then p[r]/p[r-1] - 1.
PctChangeCol(col) ==
    [r \in 1..Len(col) |->
        IF r = 1 THEN NaN ELSE Sub(Div(col[r], col[r - 1]), Num(1))]

PctChange(frame) ==
    [frame EXCEPT !.cols =
        [c \in 1..Len(frame.cols) |-> PctChangeCol(frame.cols[c])]]

RECURSIVE SelectRows(_, _)
SelectRows(seq, keep) ==
    IF seq = <<>> THEN <<>>
    ELSE (IF Len(seq) \in keep THEN SelectRows(SubSeq(seq, 1, Len(seq) - 1), keep)
                                       \o <<seq[Len(seq)]>>
          ELSE SelectRows(SubSeq(seq, 1, Len(seq) - 1), keep))

\* dropna(): the rows with no NaN in any column.
DropNa(frame) ==
    LET keep == {r \in 1..Len(frame.index) :
                    \A c \in 1..Len(frame.cols) : ~IsNaN(frame.cols[c][r])}
    IN  [index |-> SelectRows(frame.index, keep),
         cols |-> [c \in 1..Len(frame.cols) |-> SelectRows(frame.cols[c], keep)]]

\* line 94
Returns(frame) == DropNa(PctChange(frame))

RECURSIVE SumSeq(_)
SumSeq(seq) ==
    IF seq = <<>> THEN Num(0)
    ELSE Add(SumSeq(SubSeq(seq, 1, Len(seq) - 1)), seq[Len(seq)])

\* A weighted sum divided by the sum of the weights.
WeightedReturnsNormalized(returns, dict) ==
    [r \in 1..Len(returns.index) |->
        Div(SumSeq([c \in 1..Len(returns.cols) |->
                        Mul(returns.cols[c][r], dict[c].val)]),
            SumSeq([c \in 1..Len(dict) |-> dict[c].val]))]

\* lines 95-96: returns.mul([weights in key order], axis=1).sum(axis=1)
WeightedReturns(returns, dict) ==
    [r \in 1..Len(returns.index) |->
        SumSeq([c \in 1..Len(returns.cols) |->
                    Mul(returns.cols[c][r], dict[c].val)])]

\* line 97: (1 + portfolio_return).cumprod()
RECURSIVE CumProd(_, _, _, _)
CumProd(seq, r, acc, out) ==
    IF r > Len(seq) THEN out
    ELSE LET a == Mul(acc, Add(Num(1), seq[r]))
         IN  CumProd(seq, r + 1, a, Append(out, a))

\* A growth series that keeps its seed 1.0 as a first entry.
CumulativeWithSeed(wr) == <<Num(1)>> \o CumProd(wr, 1, Num(1), <<>>)

Cumulative(wr) == CumProd(wr, 1, Num(1), <<>>)

\* Series.mean(): NaN for the empty series.
Mean(seq) == IF seq = <<>> THEN NaN ELSE Div(SumSeq(seq), Num(Len(seq)))

\* The square of Series.std() (ddof = 1): NaN for fewer than two values.
Variance(seq) ==
    IF Len(seq) < 2 THEN NaN
    ELSE LET m == Mean(seq)
         IN  Div(SumSeq([i \in 1..Len(seq) |->
                            Mul(Sub(seq[i], m), Sub(seq[i], m))]),
                 Num(Len(seq) - 1))

\* A real number sg * sqrt(sq): how the standard deviation and the ratio
\* built on it are held exactly.
Root(sg, sq) == [sg |-> sg, sq |-> sq]
RootNaN == Root(0, NaN)
RootZero == Root(0, Num(0))

\* Series.std()
Std(seq) ==
    LET v == Variance(seq) IN IF IsNaN(v) THEN RootNaN ELSE Root(Sign(v), v)

\* std != 0 (NaN != 0 is True)
StdNonZero(std) == IsNaN(std.sq) \/ std.sg # 0

\* mean / std
DivByRoot(mean, std) ==
    LET q == Div(Mul(mean, mean), std.sq)
    IN  IF IsNaN(mean) \/ IsNaN(std.sq) \/ IsNaN(q) THEN RootNaN
        ELSE Root(Sign(mean), q)

\* The ratio without its zero guard.
SharpeRatioUnguarded(mean, std) == DivByRoot(mean, std)

\* line 102: mean / std if std != 0 else 0
SharpeRatio(mean, std) ==
    IF StdNonZero(std) THEN DivByRoot(mean, std) ELSE RootZero

EmptyFrame == [index |-> <<>>, cols |-> <<>>]

\* The whole call of line 120; nothing in it raises for an empty series.
portfolio_performance ==
    /\ port_pc = "call"
    /\ Len(alloc_dict) > 0
    /\ LET filled == FFill(BuildPrices(Keys(alloc_dict), supplier, EmptyFrame))
           wr == WeightedReturns(Returns(filled), alloc_dict)
       IN  /\ prices' = filled
           /\ portfolio_return' = wr
           /\ cumulative' = Cumulative(wr)
           /\ metrics' = [mean |-> Mean(wr), std |-> Std(wr),
                          sharpe |-> SharpeRatio(Mean(wr), Std(wr))]
    /\ port_pc' = "returned"
    /\ UNCHANGED supplier
    /\ UNCHANGED parse_vars
    /\ UNCHANGED ind_vars

----------------------------------------------------------------------------
(* Inputs and specifications.                                              *)

MaxChars == 5     \* longest allocation text
MaxBars == 25     \* longest of the short bar series
MaxExtra == 1     \* bars past a moving-average window in the long series
MaxDate == 4      \* trading dates are 1..MaxDate

Alphabet == {"a", ":", ",", "5", "-", " "}

AllocationTexts == UNION {[1..n -> Alphabet] : n \in 0..MaxChars}

\* Short series: a trend of b per bar from 100 and, from bar k on, a jump e.
ShortCloses ==
    {[i \in 1..n |-> Num(100 + b * (i - 1) + (IF i >= k THEN e ELSE 0))] :
        n \in 0..MaxBars, b \in {-1, 0, 1}, k \in 2..(MaxBars + 1), e \in {-3, 0, 3}}

\* Long series, around the two moving-average windows.
LongCloses ==
    {[i \in 1..(w + x) |-> Num(300 + b * (i - 1) + ((i * i) % 7))] :
        w \in {SMA50Window, SMA200Window}, x \in (-1)..MaxExtra, b \in {-1, 0, 1}}

CloseHistories == ShortCloses \cup LongCloses

RECURSIVE Pow2(_)
Pow2(e) == IF e = 0 THEN 1 ELSE 2 * Pow2(e - 1)

Patterns == {"geo", "flat", "zig"}

\* Closes whose ratios are powers of two, so that the arithmetic stays small.
Price(pat, d) ==
    IF pat = "geo" THEN Pow2(d)
    ELSE IF pat = "flat" THEN 4
    ELSE IF d % 2 = 1 THEN 4 ELSE 2

CloseSeries ==
    {[d \in D |-> Price(pat, d)] : pat \in Patterns, D \in SUBSET (1..MaxDate)}

\* Allocation texts of one or two entries over the tickers a and b.
Entries ==
    {<<t, ":">> \o p : t \in {"a", "b"}, p \in {<<"5", "0">>, <<"1", "0", "0">>}}

PortfolioTexts ==
    Entries \cup {e1 \o <<",">> \o e2 : e1 \in Entries, e2 \in Entries}

KeySet(dict) == {dict[i].key : i \in 1..Len(dict)}

EmptyTable == [Close |-> <<>>, SMA50 |-> <<>>, SMA200 |-> <<>>, RSI |-> <<>>]
NoMetrics == [mean |-> NaN, std |-> RootNaN, sharpe |-> RootNaN]

ParseIdle ==
    /\ portfolio_allocations = <<>>
    /\ item_idx = 1
    /\ alloc_dict = <<>>
    /\ surfaced = <<>>

IndicatorsIdle ==
    /\ history = <<>>
    /\ df = EmptyTable
    /\ analysed = TRUE

PortfolioIdle ==
    /\ supplier = <<>>
    /\ port_pc = "idle"
    /\ prices = EmptyFrame
    /\ portfolio_return = <<>>
    /\ cumulative = <<>>
    /\ metrics = NoMetrics

\* The script at line 31, for every allocation text.
InitParse ==
    /\ portfolio_allocations \in AllocationTexts
    /\ item_idx = 0
    /\ alloc_dict = <<>>
    /\ surfaced = <<>>
    /\ IndicatorsIdle
    /\ PortfolioIdle

NextParse == ParseItem \/ ParseItemExcept

SpecParse == InitParse /\ [][NextParse]_vars

\* One iteration of the loop of line 111, about to call fetch_data.
InitIndicators ==
    /\ history \in CloseHistories
    /\ df = EmptyTable
    /\ analysed = FALSE
    /\ ParseIdle
    /\ PortfolioIdle

NextIndicators == fetch_data

SpecIndicators == InitIndicators /\ [][NextIndicators]_vars

\* The script at line 119, the allocation text parsed.
InitPortfolio ==
    /\ portfolio_allocations \in PortfolioTexts
    /\ item_idx = Len(Items)
    /\ alloc_dict = ParseAll(portfolio_allocations)
    /\ surfaced = <<>>
    /\ supplier \in [KeySet(alloc_dict) -> CloseSeries]
    /\ port_pc = "call"
    /\ prices = EmptyFrame
    /\ portfolio_return = <<>>
    /\ cumulative = <<>>
    /\ metrics = NoMetrics
    /\ IndicatorsIdle

NextPortfolio == portfolio_performance

SpecPortfolio == InitPortfolio /\ [][NextPortfolio]_vars

----------------------------------------------------------------------------
(* Properties of fetch_data (SpecIndicators).  Bars are numbered from 0 as *)
(* in the source.                                                          *)

NBars == Len(history)
Bars == 0..(NBars - 1)
Close(i) == history[i + 1].n
RSIAt(i) == df.RSI[i + 1]

\* The bars, other than bar 0, of the 14-bar window ending at bar i.
DeltaBars(i) == {j \in Bars : j >= 1 /\ j > i - RSIWindow /\ j <= i}

\* The 14-bar window ending at bar i is complete and holds no down move.
NoLossAt(i) ==
    i >= RSIWindow - 1 /\ \A j \in DeltaBars(i) : Close(j) >= Close(j - 1)

SomeGainAt(i) == \E j \in DeltaBars(i) : Close(j) > Close(j - 1)
SomeLossAt(i) == \E j \in DeltaBars(i) : Close(j) < Close(j - 1)

C7_Original ==
    analysed => \A i \in Bars : i < RSIWindow => IsNaN(RSIAt(i))

\* C7 as amended: the undefined delta of bar 0 is replaced by 0 and counts in
\* the window, so rsi14 is undefined at every bar i < 13, and at a bar
\* i >= 13 it is undefined only if the window ending at i holds no move at
\* all; every series of fewer than 14 bars has rsi14 undefined at every bar.
C7_RsiWarmup ==
    analysed =>
        /\ \A i \in Bars : i < RSIWindow - 1 => IsNaN(RSIAt(i))
        /\ \A i \in Bars : i >= RSIWindow - 1 =>
                (IsNaN(RSIAt(i)) <=> ~SomeGainAt(i) /\ ~SomeLossAt(i))
        /\ NBars < RSIWindow => \A i \in Bars : IsNaN(RSIAt(i))

\* A series of at least 14 bars whose bar 13 has a defined rsi14 between 0
\* and 100, bar 12 having none.
C7_Witness ==
    /\ analysed
    /\ NBars >= 14
    /\ IsNaN(RSIAt(12))
    /\ IsNum(RSIAt(13))
    /\ SomeGainAt(13) /\ SomeLossAt(13)

RECURSIVE SumCloses(_, _)
SumCloses(lo, hi) ==
    IF lo > hi THEN 0
    ELSE IF lo = hi THEN Close(lo)
    ELSE SumCloses(lo, (lo + hi) \div 2) + SumCloses((lo + hi) \div 2 + 1, hi)

SMAIs(col, w) ==
    \A i \in Bars :
        IF i >= w - 1
        THEN col[i + 1] = Rat(SumCloses(i - w + 1, i), w)
        ELSE IsNaN(col[i + 1])

\* C8: sma50[i] (sma200[i]) is defined iff i >= 49 (i >= 199), is then the
\* mean of the 50 (200) closes ending at bar i, and is otherwise the undefined
\* value, never the number zero; a series of fewer than 200 bars has no
\* defined sma200.
C8_SmaWindows ==
    analysed =>
        /\ SMAIs(df.SMA50, SMA50Window)
        /\ SMAIs(df.SMA200, SMA200Window)
        /\ NBars < SMA200Window => \A i \in Bars : IsNaN(df.SMA200[i + 1])

\* A series of more than 200 bars: sma200 undefined at bar 198, defined at
\* bar 199, and sma50 defined from bar 49.
C8_Witness ==
    /\ analysed
    /\ NBars > SMA200Window
    /\ IsNaN(df.SMA200[199]) /\ IsNum(df.SMA200[200])
    /\ IsNaN(df.SMA50[49]) /\ IsNum(df.SMA50[50])


----------------------------------------------------------------------------
(* Properties of the allocation parsing loop (SpecParse).                  *)

\* C4: every malformed entry is skipped without aborting the parse, and after
\* the parse every comma-separated entry of the input is either in the weight
\* map or in the list of rejected entries surfaced to the caller.
C4_Claim ==
    ParseDone =>
        \A k \in 1..Len(Items) :
            \/ TrySucceeds(Items[k]) /\ ItemKey(Items[k]) \in KeySet(alloc_dict)
            \/ \E j \in 1..Len(surfaced) : surfaced[j] = Items[k]

\* C10: every value stored in the weight map is in the closed interval [0,1].
C10_Claim ==
    \A i \in 1..Len(alloc_dict) :
        /\ IsNum(alloc_dict[i].val)
        /\ alloc_dict[i].val.n >= 0
        /\ alloc_dict[i].val.n <= alloc_dict[i].val.d

----------------------------------------------------------------------------
(* Properties of portfolio_performance (SpecPortfolio).                    *)

Returned == port_pc = "returned"
NCols == Len(prices.cols)
Weight(c) == alloc_dict[c].val
SeriesOf(c) == supplier[alloc_dict[c].key]

\* The most recent close of a series at or before date d; NaN if it has none.
LastClose(series, d) ==
    LET before == {e \in DOMAIN series : e <= d}
    IN  IF before = {} THEN NaN
        ELSE Num(series[CHOOSE e \in before : \A f \in before : f <= e])

AllDates == UNION {DOMAIN supplier[k] : k \in DOMAIN supplier}

\* C2: the aligned table has one row for every date in the union of the
\* constituents' date sets, whatever the order of the keys, and on each row a
\* security's value is its most recent close at or before that date, undefined
\* only before its first observation.
C2_Claim ==
    Returned =>
        /\ prices.index = SortedSeq(AllDates)
        /\ \A c \in 1..NCols : \A r \in 1..Len(prices.index) :
                prices.cols[c][r] = LastClose(SeriesOf(c), prices.index[r])

\* C3: if a key of the weight map has no price series, the call ends in an
\* error and returns no cumulative series and metrics.
C3_Claim ==
    (\E k \in KeySet(alloc_dict) : DOMAIN supplier[k] = {}) => ~Returned

\* The rows of the price table that keep a return: every column is defined
\* there and on the row before.
RetainedRows ==
    SortedSeq({r \in 2..Len(prices.index) :
                 \A c \in 1..NCols :
                     ~IsNaN(prices.cols[c][r - 1]) /\ ~IsNaN(prices.cols[c][r])})

\* The simple return of column c on the k-th retained row.
Ret(c, k) ==
    LET r == RetainedRows[k]
    IN  Sub(Div(prices.cols[c][r], prices.cols[c][r - 1]), Num(1))

RECURSIVE WeightedSum(_, _)
WeightedSum(c, k) ==
    IF c = 0 THEN Num(0) ELSE Add(WeightedSum(c - 1, k), Mul(Weight(c), Ret(c, k)))

RECURSIVE SumWeights(_)
SumWeights(c) == IF c = 0 THEN Num(0) ELSE Add(SumWeights(c - 1), Weight(c))

WeightsSumToOne == SumWeights(NCols) = Num(1)

\* C6: on every retained date the portfolio return is the plain sum of
\* weight x return over the securities, each weight on its own column and
\* with no division by the sum of the weights; so when every constituent has
\* the same return on a date and the weights sum to 1, the portfolio return
\* is that common return.
C6_WeightedSum ==
    Returned =>
        /\ Len(portfolio_return) = Len(RetainedRows)
        /\ \A k \in 1..Len(portfolio_return) :
                /\ portfolio_return[k] = WeightedSum(NCols, k)
                /\ (WeightsSumToOne /\ \A c \in 1..NCols : Ret(c, k) = Ret(1, k))
                       => portfolio_return[k] = Ret(1, k)

\* Two securities with different weights that do not sum to 1 and different
\* returns on a retained date.
C6_Witness ==
    /\ Returned
    /\ NCols = 2
    /\ Weight(1) # Weight(2)
    /\ ~WeightsSumToOne
    /\ Len(portfolio_return) >= 2
    /\ Ret(1, 1) # Ret(2, 1)
    /\ portfolio_return[1] # Num(0)

\* Every constituent has bars on the same n >= 2 dates.
FullyAligned(n) ==
    /\ n >= 2
    /\ \A k \in DOMAIN supplier :
           /\ Cardinality(DOMAIN supplier[k]) = n
           /\ DOMAIN supplier[k] = AllDates

\* C9: for n >= 2 fully aligned dates the cumulative growth series has
\* exactly n - 1 entries, the first is 1 x (1 + the first weighted return) and
\* each later one is the entry before it times (1 + its weighted return).
C9_CumulativeGrowth ==
    Returned =>
        \A n \in 2..(MaxDate + 1) : FullyAligned(n) =>
            /\ Len(cumulative) = n - 1
            /\ Len(portfolio_return) = n - 1
            /\ cumulative[1] = Mul(Num(1), Add(Num(1), portfolio_return[1]))
            /\ \A k \in 2..(n - 1) :
                   cumulative[k] =
                       Mul(cumulative[k - 1], Add(Num(1), portfolio_return[k]))

\* Two securities on the same four or more dates, the growth moving.
C9_Witness ==
    /\ Returned
    /\ NCols = 2
    /\ FullyAligned(Cardinality(AllDates))
    /\ Cardinality(AllDates) >= 4
    /\ Len(cumulative) = Cardinality(AllDates) - 1
    /\ cumulative[1] # Num(1)
    /\ cumulative[2] # cumulative[1]

\* The sample variance of the weighted returns is exactly 0.
ZeroVariance ==
    /\ Len(portfolio_return) >= 2
    /\ \A k \in 1..Len(portfolio_return) : portfolio_return[k] = portfolio_return[1]

\* ratio = mean / stddev: its sign is the mean's and ratio^2 x stddev^2 is
\* mean^2 (NaN when the standard deviation is undefined).
RatioIsMeanOverStd ==
    IF Len(portfolio_return) < 2
    THEN metrics.sharpe = RootNaN
    ELSE /\ metrics.sharpe.sg = Sign(metrics.mean)
         /\ Mul(metrics.sharpe.sq, metrics.std.sq) = Mul(metrics.mean, metrics.mean)

RatioRule ==
    IF ZeroVariance
    THEN metrics.std = RootZero /\ metrics.sharpe = RootZero
    ELSE metrics.std # RootZero /\ RatioIsMeanOverStd

\* Every constituent has one and the same positive return on every retained
\* date.
ConstantPositiveReturn ==
    /\ Len(RetainedRows) >= 1
    /\ Gt0(Ret(1, 1))
    /\ \A c \in 1..NCols : \A k \in 1..Len(RetainedRows) : Ret(c, k) = Ret(1, 1)

\* C5 as stated: the ratio is mean/stddev when the standard deviation is not
\* zero and exactly 0 when it is zero; whenever the weights sum to 1 and every
\* constituent has the same constant positive daily return, the standard
\* deviation is 0 and the ratio is 0.
C5_Original ==
    Returned =>
        /\ RatioRule
        /\ (WeightsSumToOne /\ ConstantPositiveReturn)
               => metrics.std = RootZero /\ metrics.sharpe = RootZero

\* C5 as amended: the same, the constant-return case holding when at least
\* two dates are retained; with a single retained date the sample standard
\* deviation and the ratio are undefined.
C5_SharpeRatio ==
    Returned =>
        /\ RatioRule
        /\ (WeightsSumToOne /\ ConstantPositiveReturn /\ Len(RetainedRows) >= 2)
               => metrics.std = RootZero /\ metrics.sharpe = RootZero
        /\ Len(RetainedRows) = 1
               => metrics.std = RootNaN /\ metrics.sharpe = RootNaN

\* Two securities, weights summing to 1, one constant positive return over at
\* least two retained dates: the guard returns 0.
C5_Witness ==
    /\ Returned
    /\ NCols = 2
    /\ WeightsSumToOne
    /\ ConstantPositiveReturn
    /\ Len(RetainedRows) >= 2
    /\ Gt0(metrics.mean)
    /\ metrics.std = RootZero
    /\ metrics.sharpe = RootZero

====
